---- MODULE Spec2Model ----
(***************************************************************************)
(* State-machine model of src/script.js, the to-do list page: the          *)
(* in-memory tasks array, the drag-source index, the two localStorage      *)
(* keys, the rendered rows with the closures their listeners captured,     *)
(* and one action per event handler.                                       *)
(*                                                                         *)
(* Conventions.  Array indices are the 0-based indices of the script; a    *)
(* TLA+ sequence position is index + 1.  A string the user types is a      *)
(* sequence of characters, so that trim() is computed and not assumed.     *)
(* The text stored under a localStorage key is modelled by its form        *)
(* (absent, the empty string, text that is not JSON, or the JSON value it  *)
(* spells), which is what getItem/JSON.parse can tell apart.               *)
(***************************************************************************)
EXTENDS Integers, Sequences, FiniteSets, TLC

VARIABLES
    tasks,         \* the elements of the array bound to `tasks` (script.js:15)
    tasksType,     \* "array", or what JSON.parse bound to `tasks` instead
    draggedIndex,  \* script.js:17; Null or a 0-based index
    storage,       \* the text under localStorage key 'tasks'
    darkStore,     \* the text under localStorage key 'darkMode'
    darkClass,     \* document.body has class 'dark-mode'
    view,          \* the <li> rows of #todo-list, in document order
    todoInput,     \* todoInput.value after the last event
    pc,            \* "start" before DOMContentLoaded; then "running", or
                   \* "crashed" when init() threw before attaching listeners
    event,         \* the last event dispatched and how its handler ended
    quotaBudget,   \* how many more storage writes may fail (bound)
    taskLimit      \* how many tasks the user lets the list grow to (bound)

vars == <<tasks, tasksType, draggedIndex, storage, darkStore, darkClass,
          view, todoInput, pc, event, quotaBudget, taskLimit>>

-----------------------------------------------------------------------------
(* Bounds of the exploration *)

\* length of the list when every write succeeds
MaxTasks == 3

\* length of the list when a write can fail
MaxTasksQuota == 2

\* tasks in the list when typing in a span is a step of its own
MaxTasksTyping == 2

\* length of a typed string
MaxLen == 2

\* values of the clock
MaxTime == 1

\* rows in editing mode at once
MaxEditing == 2

\* storage writes that fail in one run
MaxQuotaErrors == 1

-----------------------------------------------------------------------------
(* Values *)

\* JavaScript null, for draggedIndex (an index is never negative)
Null == -1

Chars == {" ", "a"}

RECURSIVE StringsUpTo(_)
StringsUpTo(n) ==
    IF n = 0 THEN {<<>>}
    ELSE LET shorter == StringsUpTo(n - 1)
         IN  shorter \cup {Append(s, c) : s \in {t \in shorter : Len(t) = n - 1}, c \in Chars}

\* what the user can have typed into the input field or an editable span
InputTexts == StringsUpTo(MaxLen)

\* what new Date().toISOString() can return
Times == 1..MaxTime

\* String.prototype.trim
RECURSIVE TrimStart(_)
TrimStart(s) ==
    IF s = <<>> THEN s
    ELSE IF Head(s) = " " THEN TrimStart(Tail(s)) ELSE s

RECURSIVE TrimEnd(_)
TrimEnd(s) ==
    IF s = <<>> THEN s
    ELSE IF s[Len(s)] = " " THEN TrimEnd(SubSeq(s, 1, Len(s) - 1)) ELSE s

\* a trim that returns the text as typed
trimNone(s) == s

trim(s) == TrimEnd(TrimStart(s))

\* An element of the tasks array: a task object { text, completed, createdAt },
\* or undefined, or null.  The fields of the two non-objects are fillers.
Task(text, completed, createdAt) ==
    [kind |-> "task", text |-> text, completed |-> completed, createdAt |-> createdAt]

Undefined == [kind |-> "undefined", text |-> <<>>, completed |-> FALSE, createdAt |-> 0]

JsonNull == [kind |-> "null", text |-> <<>>, completed |-> FALSE, createdAt |-> 0]

\* The text under a storage key.  form: "absent" (getItem returns null),
\* "empty" (the empty string), "garbage" (not JSON), or the type of the JSON
\* value the text spells: "array" (with its items), "null", "number".
Blob(form, items) == [form |-> form, items |-> items]

Absent == Blob("absent", <<>>)

\* JSON.stringify of one array element: undefined is written as null
StringifyElement(e) == IF e.kind = "undefined" THEN JsonNull ELSE e

RECURSIVE StringifyElements(_)
StringifyElements(ts) ==
    IF ts = <<>> THEN <<>>
    ELSE <<StringifyElement(Head(ts))>> \o StringifyElements(Tail(ts))

\* JSON.stringify(tasks), tasks an array
JSONstringify(ts) == Blob("array", StringifyElements(ts))

\* JSON.parse throws SyntaxError on text that is not JSON
ParseThrows(blob) == blob.form \in {"empty", "garbage"}

\* JSON.parse(text).  A JSON object becomes a task object, null becomes null.
JSONparse(blob) == [type |-> blob.form, items |-> blob.items]

EmptyArray == [type |-> "array", items |-> <<>>]

\* loadTasks: stored ? JSON.parse(stored) : [], [] when parse throws
loadTasks(blob) ==
    IF blob.form \in {"absent", "empty"} THEN EmptyArray
    ELSE IF ParseThrows(blob) THEN EmptyArray
    ELSE JSONparse(blob)

-----------------------------------------------------------------------------
(* Array.prototype.splice(start, deleteCount, ...items) for start >= 0:     *)
(* start and deleteCount are clamped to the array; returns the removed      *)
(* elements and the array after the call.                                   *)

Min(a, b) == IF a < b THEN a ELSE b

\* a splice that takes a start past the end to mean the last element, as a
\* negative start would
spliceFromEnd(ts, start, deleteCount, items) ==
    LET actualStart == IF start >= Len(ts) /\ Len(ts) > 0 THEN Len(ts) - 1 ELSE Min(start, Len(ts))
        actualDelete == Min(deleteCount, Len(ts) - actualStart)
    IN  [removed |-> SubSeq(ts, actualStart + 1, actualStart + actualDelete),
         array   |-> SubSeq(ts, 1, actualStart) \o items
                     \o SubSeq(ts, actualStart + actualDelete + 1, Len(ts))]

\* a splice that removes one element more than asked
spliceOneMore(ts, start, deleteCount, items) ==
    LET actualStart == Min(start, Len(ts))
        actualDelete == Min(IF deleteCount > 0 THEN deleteCount + 1 ELSE 0, Len(ts) - actualStart)
    IN  [removed |-> SubSeq(ts, actualStart + 1, actualStart + actualDelete),
         array   |-> SubSeq(ts, 1, actualStart) \o items
                     \o SubSeq(ts, actualStart + actualDelete + 1, Len(ts))]

splice(ts, start, deleteCount, items) ==
    LET actualStart == Min(start, Len(ts))
        actualDelete == Min(deleteCount, Len(ts) - actualStart)
    IN  [removed |-> SubSeq(ts, actualStart + 1, actualStart + actualDelete),
         array   |-> SubSeq(ts, 1, actualStart) \o items
                     \o SubSeq(ts, actualStart + actualDelete + 1, Len(ts))]

-----------------------------------------------------------------------------
(* renderTasks.  A row keeps what its listeners captured.  The captured     *)
(* `index` (and dataset.index) is the row's position in the view less one:  *)
(* rows are only ever rebuilt together, in order.  ref is where the         *)
(* captured task object now sits in tasks (a position; 0 when the object is *)
(* no longer in the array), text is taskSpan.textContent, editing is        *)
(* taskSpan.isContentEditable, checked is checkbox.checked.                 *)

Row(ref, t) == [ref |-> ref, text |-> t.text, editing |-> FALSE, checked |-> t.completed]

\* the callback of forEach reads task.completed: TypeError on undefined/null
RECURSIVE RenderedPrefix(_)
RenderedPrefix(ts) ==
    IF ts = <<>> \/ Head(ts).kind # "task" THEN 0 ELSE 1 + RenderedPrefix(Tail(ts))

RenderThrows(type, ts) == type # "array" \/ RenderedPrefix(ts) < Len(ts)

\* a render that keeps the rows that are being edited as they are
renderTasksKeepsEdited(type, ts) ==
    IF type # "array" THEN <<>>
    ELSE [k \in 1..RenderedPrefix(ts) |->
             IF k \in DOMAIN view /\ view[k].editing
             THEN [Row(k, ts[k]) EXCEPT !.editing = TRUE, !.text = view[k].text]
             ELSE Row(k, ts[k])]

\* the rows in the list after renderTasks returned or threw
renderTasks(type, ts) ==
    IF type # "array" THEN <<>>
    ELSE [k \in 1..RenderedPrefix(ts) |-> Row(k, ts[k])]

\* a mutation that was not followed by a render: the rows stay, the objects
\* they captured have moved from position r to position moved[r]
Retarget(v, moved) ==
    [k \in DOMAIN v |-> [v[k] EXCEPT !.ref = IF @ = 0 THEN 0 ELSE moved[@]]]

\* name: the handler; inRange: every index the handler spliced at was an
\* index of the array (TRUE when it spliced nowhere); wrote: saveTasks wrote
\* the 'tasks' key; error: what the handler threw
Ev(name, inRange, wrote, error) ==
    [name |-> name, inRange |-> inRange, wrote |-> wrote, error |-> error]

\* localStorage.setItem throws QuotaExceededError when the quota is exceeded
WriteOutcomes == IF quotaBudget > 0 THEN BOOLEAN ELSE {TRUE}

\* a handler tail that writes the list as it was before the mutation
SaveBeforeMutation(name, inRange, newTasks, staleView, ok) ==
    /\ tasks' = newTasks
    /\ tasksType' = "array"
    /\ IF ok
       THEN /\ storage' = JSONstringify(tasks)
            /\ view' = renderTasks("array", newTasks)
            /\ event' = Ev(name, inRange, TRUE,
                           IF RenderThrows("array", newTasks) THEN "TypeError" ELSE "none")
            /\ quotaBudget' = quotaBudget
       ELSE /\ storage' = storage
            /\ view' = staleView
            /\ event' = Ev(name, inRange, FALSE, "QuotaExceededError")
            /\ quotaBudget' = quotaBudget - 1

\* the tail of every mutating handler: saveTasks(); renderTasks();
\* newTasks is the array after the mutation, staleView the rows as they are
\* left when saveTasks throws.
SaveAndRender(name, inRange, newTasks, staleView, ok) ==
    /\ tasks' = newTasks
    /\ tasksType' = "array"
    /\ IF ok
       THEN /\ storage' = JSONstringify(newTasks)
            /\ view' = renderTasks("array", newTasks)
            /\ event' = Ev(name, inRange, TRUE,
                           IF RenderThrows("array", newTasks) THEN "TypeError" ELSE "none")
            /\ quotaBudget' = quotaBudget
       ELSE /\ storage' = storage
            /\ view' = staleView
            /\ event' = Ev(name, inRange, FALSE, "QuotaExceededError")
            /\ quotaBudget' = quotaBudget - 1

-----------------------------------------------------------------------------
(* The page before DOMContentLoaded *)

SampleTask == Task(<<"a">>, FALSE, 1)

OtherTask == Task(<<"a", "a">>, TRUE, MaxTime)

\* what an earlier session of this script can have left under 'tasks'
CleanBlobs ==
    {Absent, JSONstringify(<<>>), JSONstringify(<<SampleTask>>),
     JSONstringify(<<SampleTask, OtherTask>>)}

\* what anything at all can have left under 'tasks'
AnyBlobs ==
    CleanBlobs \cup
    {Blob("empty", <<>>), Blob("garbage", <<>>), Blob("null", <<>>), Blob("number", <<>>),
     Blob("array", <<JsonNull>>), Blob("array", <<SampleTask, JsonNull>>),
     Blob("array", <<JsonNull, OtherTask>>)}

DarkTexts == {"absent", "true", "false"}

InitWith(blobs, budget, limit) ==
    /\ tasks = <<>>
    /\ tasksType = "array"
    /\ draggedIndex = Null
    /\ storage \in blobs
    /\ darkStore \in DarkTexts
    /\ darkClass = FALSE
    /\ view = <<>>
    /\ todoInput = <<>>
    /\ pc = "start"
    /\ event = Ev("none", TRUE, FALSE, "none")
    /\ quotaBudget = budget
    /\ taskLimit = limit

\* storage as this script leaves it, every write succeeds
Init == InitWith(CleanBlobs, 0, MaxTasks)

\* storage as this script leaves it, writes can exceed the quota
InitQuota == InitWith(CleanBlobs, MaxQuotaErrors, MaxTasksQuota)

\* any text under 'tasks', every write succeeds
InitLoad == InitWith(AnyBlobs, 0, MaxTasks)

\* storage as this script leaves it, every write succeeds, a shorter list
InitTyping == InitWith(CleanBlobs, 0, MaxTasksTyping)

-----------------------------------------------------------------------------
(* init(): loadTasks, the dark-mode preference, renderTasks, the listeners. *)
(* renderTasks throwing leaves init before it attached the listeners of the *)
(* add, delete-all and dark-mode buttons and of the input field.            *)
(* toggleDarkMode(true) runs only when 'darkMode' holds 'true' and writes   *)
(* 'true' over it: the key keeps its text and the quota is not touched.     *)

InitApp ==
    /\ pc = "start"
    /\ LET loaded == loadTasks(storage)
           darkPref == darkStore = "true"
           threw == RenderThrows(loaded.type, loaded.items)
       IN  /\ tasks' = loaded.items
           /\ tasksType' = loaded.type
           /\ darkClass' = darkPref
           /\ view' = renderTasks(loaded.type, loaded.items)
           /\ pc' = IF threw THEN "crashed" ELSE "running"
           /\ event' = Ev("init", TRUE, FALSE, IF threw THEN "TypeError" ELSE "none")
    /\ UNCHANGED <<draggedIndex, storage, darkStore, todoInput, quotaBudget, taskLimit>>

-----------------------------------------------------------------------------
(* addTask: click on the add button, or Enter in the input field, with      *)
(* `typed` in the field; `now` is the clock.                                *)

\* an addTask that reads the field without trimming it
AddTaskNoTrim(typed, now, ok) ==
    /\ pc = "running"
    /\ LET text == typed
           newTask == Task(text, FALSE, now)
           newTasks == Append(tasks, newTask)
       IN  IF text = <<>>
           THEN /\ todoInput' = typed
                /\ event' = Ev("add", TRUE, FALSE, "none")
                /\ UNCHANGED <<tasks, tasksType, storage, view, quotaBudget>>
           ELSE /\ Len(tasks) < taskLimit
                /\ SaveAndRender("add", TRUE, newTasks, view, ok)
                /\ todoInput' = IF ok /\ ~RenderThrows("array", newTasks) THEN <<>> ELSE typed
    /\ UNCHANGED <<draggedIndex, darkStore, darkClass, pc, taskLimit>>

AddTask(typed, now, ok) ==
    /\ pc = "running"
    /\ LET text == trim(typed)
           newTask == Task(text, FALSE, now)
           newTasks == Append(tasks, newTask)
       IN  IF text = <<>>
           THEN /\ todoInput' = typed
                /\ event' = Ev("add", TRUE, FALSE, "none")
                /\ UNCHANGED <<tasks, tasksType, storage, view, quotaBudget>>
           ELSE /\ Len(tasks) < taskLimit
                /\ SaveAndRender("add", TRUE, newTasks, view, ok)
                /\ todoInput' = IF ok /\ ~RenderThrows("array", newTasks) THEN <<>> ELSE typed
    /\ UNCHANGED <<draggedIndex, darkStore, darkClass, pc, taskLimit>>

(* deleteAllTasks *)

\* tasks = []: every captured object has left the array
Orphaned == [r \in 1..Len(tasks) |-> 0]

DeleteAllTasks(ok) ==
    /\ pc = "running"
    /\ SaveAndRender("deleteAll", TRUE, <<>>, Retarget(view, Orphaned), ok)
    /\ UNCHANGED <<draggedIndex, darkStore, darkClass, todoInput, pc, taskLimit>>

(* toggleDarkMode(), from the click listener: force is undefined *)

BoolText(b) == IF b THEN "true" ELSE "false"

\* a toggle that stores the state it found instead of the one it applied
ToggleDarkModeStale(ok) ==
    /\ pc = "running"
    /\ LET enable == ~darkClass
       IN  /\ darkClass' = enable
           /\ darkStore' = IF ok THEN BoolText(darkClass) ELSE darkStore
           /\ event' = Ev("darkMode", TRUE, FALSE,
                          IF ok THEN "none" ELSE "QuotaExceededError")
           /\ quotaBudget' = IF ok THEN quotaBudget ELSE quotaBudget - 1
    /\ UNCHANGED <<tasks, tasksType, draggedIndex, storage, view, todoInput, pc, taskLimit>>

ToggleDarkMode(ok) ==
    /\ pc = "running"
    /\ LET enable == ~darkClass
       IN  /\ darkClass' = enable
           /\ darkStore' = IF ok THEN BoolText(enable) ELSE darkStore
           /\ event' = Ev("darkMode", TRUE, FALSE,
                          IF ok THEN "none" ELSE "QuotaExceededError")
           /\ quotaBudget' = IF ok THEN quotaBudget ELSE quotaBudget - 1
    /\ UNCHANGED <<tasks, tasksType, draggedIndex, storage, view, todoInput, pc, taskLimit>>

-----------------------------------------------------------------------------
(* The listeners of row k of the view (k a position, index = k - 1).        *)

\* a handler that negates the flag instead of copying the checkbox
setCompletedFlips(ts, ref, checked) == [ts EXCEPT ![ref].completed = ~@]

\* task.completed = checkbox.checked, on the task at position ref of the list
setCompleted(ts, ref, checked) == [ts EXCEPT ![ref].completed = checked]

\* change on the checkbox: the click has flipped checkbox.checked
CheckboxChange(k, ok) ==
    /\ k \in DOMAIN view
    /\ LET checked == ~view[k].checked
           ref == view[k].ref
           newTasks == IF ref = 0 THEN tasks ELSE setCompleted(tasks, ref, checked)
       IN  SaveAndRender("toggle", TRUE, newTasks, [view EXCEPT ![k].checked = checked], ok)
    /\ UNCHANGED <<draggedIndex, darkStore, darkClass, todoInput, pc, taskLimit>>

Editing == {k \in DOMAIN view : view[k].editing}

\* click on Edit while the span is not editable
EditStart(k) ==
    /\ k \in DOMAIN view
    /\ ~view[k].editing
    /\ Cardinality(Editing) < MaxEditing
    /\ view' = [view EXCEPT ![k].editing = TRUE]
    /\ event' = Ev("editStart", TRUE, FALSE, "none")
    /\ UNCHANGED <<tasks, tasksType, draggedIndex, storage, darkStore, darkClass,
                   todoInput, pc, quotaBudget, taskLimit>>

\* the user changes the text of the editable span of row k to `typed`
TypeInSpan(k, typed) ==
    /\ k \in DOMAIN view
    /\ view[k].editing
    /\ view[k].text # typed
    /\ view' = [view EXCEPT ![k].text = typed]
    /\ event' = Ev("type", TRUE, FALSE, "none")
    /\ UNCHANGED <<tasks, tasksType, draggedIndex, storage, darkStore, darkClass,
                   todoInput, pc, quotaBudget, taskLimit>>

\* an edit handler that reads the span without trimming it
EditCommitNoTrim(k, typed, ok) ==
    /\ k \in DOMAIN view
    /\ view[k].editing
    /\ LET newText == typed
           ref == view[k].ref
           newTasks == IF ref = 0 THEN tasks ELSE [tasks EXCEPT ![ref].text = newText]
       IN  IF newText # <<>>
           THEN SaveAndRender("edit", TRUE, newTasks, [view EXCEPT ![k].text = typed], ok)
           ELSE /\ view' = renderTasks("array", tasks)
                /\ event' = Ev("edit", TRUE, FALSE,
                               IF RenderThrows("array", tasks) THEN "TypeError" ELSE "none")
                /\ UNCHANGED <<tasks, tasksType, storage, quotaBudget>>
    /\ UNCHANGED <<draggedIndex, darkStore, darkClass, todoInput, pc, taskLimit>>

\* an edit handler that puts a new object without createdAt in the task's place
EditCommitRebuilds(k, typed, ok) ==
    /\ k \in DOMAIN view
    /\ view[k].editing
    /\ LET newText == trim(typed)
           ref == view[k].ref
           newTasks == IF ref = 0 THEN tasks
                       ELSE [tasks EXCEPT ![ref] = Task(newText, @.completed, 0)]
       IN  IF newText # <<>>
           THEN SaveAndRender("edit", TRUE, newTasks, [view EXCEPT ![k].text = typed], ok)
           ELSE /\ view' = renderTasks("array", tasks)
                /\ event' = Ev("edit", TRUE, FALSE,
                               IF RenderThrows("array", tasks) THEN "TypeError" ELSE "none")
                /\ UNCHANGED <<tasks, tasksType, storage, quotaBudget>>
    /\ UNCHANGED <<draggedIndex, darkStore, darkClass, todoInput, pc, taskLimit>>

\* click on Edit while the span is editable and holds `typed`
EditCommit(k, typed, ok) ==
    /\ k \in DOMAIN view
    /\ view[k].editing
    /\ LET newText == trim(typed)
           ref == view[k].ref
           newTasks == IF ref = 0 THEN tasks ELSE [tasks EXCEPT ![ref].text = newText]
       IN  IF newText # <<>>
           THEN SaveAndRender("edit", TRUE, newTasks, [view EXCEPT ![k].text = typed], ok)
           ELSE /\ view' = renderTasks("array", tasks)
                /\ event' = Ev("edit", TRUE, FALSE,
                               IF RenderThrows("array", tasks) THEN "TypeError" ELSE "none")
                /\ UNCHANGED <<tasks, tasksType, storage, quotaBudget>>
    /\ UNCHANGED <<draggedIndex, darkStore, darkClass, todoInput, pc, taskLimit>>

\* click on Remove: tasks.splice(index, 1)
RemoveBtnClick(k, ok) ==
    /\ k \in DOMAIN view
    /\ LET index == k - 1
           newTasks == splice(tasks, index, 1, <<>>).array
           moved == [r \in 1..Len(tasks) |-> IF r = k THEN 0 ELSE IF r > k THEN r - 1 ELSE r]
       IN  SaveAndRender("remove", index < Len(tasks), newTasks, Retarget(view, moved), ok)
    /\ UNCHANGED <<draggedIndex, darkStore, darkClass, todoInput, pc, taskLimit>>

handleDragStart(k) ==
    /\ k \in DOMAIN view
    /\ draggedIndex' = k - 1
    /\ event' = Ev("dragstart", TRUE, FALSE, "none")
    /\ UNCHANGED <<tasks, tasksType, storage, darkStore, darkClass, view, todoInput,
                   pc, quotaBudget, taskLimit>>

handleDragOver(k) ==
    /\ k \in DOMAIN view
    /\ event' = Ev("dragover", TRUE, FALSE, "none")
    /\ UNCHANGED <<tasks, tasksType, draggedIndex, storage, darkStore, darkClass, view,
                   todoInput, pc, quotaBudget, taskLimit>>

\* a drop that exchanges the two tasks instead of moving one
reorderSwap(ts, fromIndex, toIndex) ==
    IF fromIndex < Len(ts) /\ toIndex < Len(ts)
    THEN [ts EXCEPT ![fromIndex + 1] = ts[toIndex + 1], ![toIndex + 1] = ts[fromIndex + 1]]
    ELSE ts

\* the array after the two splice calls of handleDrop
reorder(ts, fromIndex, toIndex) ==
    LET first == splice(ts, fromIndex, 1, <<>>)
        movedTask == IF first.removed = <<>> THEN Undefined ELSE first.removed[1]
    IN  splice(first.array, toIndex, 0, <<movedTask>>).array

handleDrop(k, ok) ==
    /\ k \in DOMAIN view
    /\ LET targetIndex == k - 1
           from == draggedIndex + 1
           to == Min(targetIndex, Len(splice(tasks, draggedIndex, 1, <<>>).array)) + 1
           Shift(r) == IF r >= to THEN r + 1 ELSE r
           moved == [r \in 1..Len(tasks) |->
                        IF from > Len(tasks) THEN Shift(r)
                        ELSE IF r = from THEN to
                        ELSE Shift(IF r > from THEN r - 1 ELSE r)]
       IN  IF draggedIndex = Null \/ draggedIndex = targetIndex
           THEN /\ event' = Ev("drop", TRUE, FALSE, "none")
                /\ UNCHANGED <<tasks, tasksType, storage, view, quotaBudget>>
           ELSE SaveAndRender("drop",
                              draggedIndex < Len(tasks) /\ targetIndex < Len(tasks),
                              reorder(tasks, draggedIndex, targetIndex),
                              Retarget(view, moved), ok)
    /\ UNCHANGED <<draggedIndex, darkStore, darkClass, todoInput, pc, taskLimit>>

\* a dragend handler that restores the opacity only
handleDragEndKeeps ==
    /\ draggedIndex # Null
    /\ draggedIndex' = draggedIndex
    /\ event' = Ev("dragend", TRUE, FALSE, "none")
    /\ UNCHANGED <<tasks, tasksType, storage, darkStore, darkClass, view, todoInput,
                   pc, quotaBudget, taskLimit>>

\* dragend is dispatched to the row the drag started on, in the list or not
handleDragEnd ==
    /\ draggedIndex # Null
    /\ draggedIndex' = Null
    /\ event' = Ev("dragend", TRUE, FALSE, "none")
    /\ UNCHANGED <<tasks, tasksType, storage, darkStore, darkClass, view, todoInput,
                   pc, quotaBudget, taskLimit>>

-----------------------------------------------------------------------------

Rows == 1..MaxTasks

Next ==
    \/ InitApp
    \/ \E typed \in InputTexts, now \in Times, ok \in WriteOutcomes : AddTask(typed, now, ok)
    \/ \E ok \in WriteOutcomes : DeleteAllTasks(ok)
    \/ \E ok \in WriteOutcomes : ToggleDarkMode(ok)
    \/ \E k \in Rows, ok \in WriteOutcomes : CheckboxChange(k, ok)
    \/ \E k \in Rows : EditStart(k)
    \/ \E k \in Rows, typed \in InputTexts, ok \in WriteOutcomes : EditCommit(k, typed, ok)
    \/ \E k \in Rows, ok \in WriteOutcomes : RemoveBtnClick(k, ok)
    \/ \E k \in Rows : handleDragStart(k)
    \/ \E k \in Rows : handleDragOver(k)
    \/ \E k \in Rows, ok \in WriteOutcomes : handleDrop(k, ok)
    \/ handleDragEnd

Spec == Init /\ [][Next]_vars

SpecQuota == InitQuota /\ [][Next]_vars

SpecLoad == InitLoad /\ [][Next]_vars

\* typing in an editable span as a step between the two clicks on Edit
NextTyping ==
    \/ Next
    \/ \E k \in Rows, typed \in InputTexts : TypeInSpan(k, typed)

SpecTyping == InitTyping /\ [][NextTyping]_vars

-----------------------------------------------------------------------------
(* Properties *)

\* what loadTasks would bind to `tasks` from the text now under 'tasks'
Decoded == loadTasks(storage)

\* the stored text decodes to exactly the in-memory list
InSync == Decoded.type = tasksType /\ Decoded.items = tasks

IsTask(e) == e.kind = "task"

Drop(k) == \E ok \in WriteOutcomes : handleDrop(k, ok)

Remove(k) == \E ok \in WriteOutcomes : RemoveBtnClick(k, ok)

\* C1: after a mutating operation whose storage write succeeded, the text
\* under 'tasks' decodes to exactly the in-memory list.
C1_StoredDecodesToMemory == event.wrote => InSync

\* C2: a drop onto the drag-source index, or with the drag-source index null
\* or out of range for the list, changes neither the list nor the storage
\* and writes nothing.
C2_DegenerateDropIsNoOp ==
    [][\A k \in Rows :
          (Drop(k) /\ (draggedIndex = Null \/ draggedIndex = k - 1
                       \/ draggedIndex >= Len(tasks)))
          => (tasks' = tasks /\ storage' = storage /\ ~event'.wrote)]_vars

\* a stored text that is the encoding of a list of task records
WellFormed(blob) ==
    blob.form = "array" /\ \A i \in DOMAIN blob.items : IsTask(blob.items[i])

\* C3: load never fails: after init no error was raised, and a stored text
\* that is absent or is no encoding of a list of task records has left the
\* in-memory list empty.
C3_LoadFailsSoft ==
    event.name = "init" =>
        /\ event.error = "none"
        /\ ~WellFormed(storage) => (tasksType = "array" /\ tasks = <<>>)

\* C4: with every storage write succeeding, no handler and no re-render
\* raises an error.
C4_NoHandlerThrows == event.error = "none"

\* C5: every element of the list is a task record whose trimmed text is not
\* empty.
C5_EveryElementIsNonEmptyTask ==
    \A i \in DOMAIN tasks : IsTask(tasks[i]) /\ trim(tasks[i].text) # <<>>

\* C6: whenever an event can be dispatched the view has exactly one row per
\* task, in list order, and row k shows the task at position k.
C6_ViewMatchesList ==
    pc # "start" =>
        /\ Len(view) = Len(tasks)
        /\ \A k \in DOMAIN view : view[k].ref = k

\* a handler that ends by saveTasks(); renderTasks(); threw on the write
WriteFailed == event.error = "QuotaExceededError" /\ event.name # "darkMode"

C8_ReorderIsMove ==
    [][\A k \in Rows :
          (Drop(k) /\ draggedIndex # Null /\ draggedIndex # k - 1
                   /\ draggedIndex < Len(tasks) /\ k - 1 < Len(tasks))
          => LET from == draggedIndex + 1
                 Others(s, p) == SubSeq(s, 1, p - 1) \o SubSeq(s, p + 1, Len(s))
             IN  /\ Len(tasks') = Len(tasks)
                 /\ tasks'[k] = tasks[from]
                 /\ Others(tasks', k) = Others(tasks, from)
                 /\ (Len(tasks) = 3 /\ from = 1 /\ k = 3)
                        => tasks' = <<tasks[2], tasks[3], tasks[1]>>]_vars

\* C8, witness: a drop has moved a task within a list of three distinct tasks
C8_Witness ==
    /\ event.name = "drop" /\ event.wrote /\ event.inRange
    /\ Len(tasks) = 3
    /\ tasks[1] # tasks[2] /\ tasks[2] # tasks[3] /\ tasks[1] # tasks[3]
    /\ draggedIndex = 0

\* C9: a remove at an index of the list shortens it by one and removes
\* exactly the task at that index; the others keep their values and order.
C9_RemoveRemovesThatTask ==
    [][\A k \in Rows :
          (Remove(k) /\ k - 1 < Len(tasks))
          => /\ Len(tasks') = Len(tasks) - 1
             /\ \A i \in 1..Len(tasks') :
                    tasks'[i] = IF i < k THEN tasks[i] ELSE tasks[i + 1]]_vars

\* C9, witness: a remove has taken a task out of the middle or front of a list
C9_Witness ==
    /\ event.name = "remove" /\ event.wrote /\ event.inRange
    /\ Len(tasks) = 2
    /\ tasks[1] # tasks[2]

\* C10: a remove at an index that is no index of the list leaves the list
\* as it is.
C10_RemoveOutOfRangeKeepsList ==
    [][\A k \in Rows : (Remove(k) /\ k - 1 >= Len(tasks)) => tasks' = tasks]_vars

\* C10, witness: a row of a view that was not re-rendered has been used to
\* remove at an index past the end of a list that is not empty
C10_Witness ==
    /\ event.name = "remove" /\ ~event.inRange
    /\ Len(tasks) > 0

Add(typed, now) == \E ok \in WriteOutcomes : AddTask(typed, now, ok)

\* C11: an add whose trimmed text is not empty makes the list one longer, puts
\* a task with the trimmed text, completed = false and the clock's createdAt
\* at the end, and keeps every task that was there at its position
C11_AddAppendsTrimmed ==
    [][\A typed \in InputTexts, now \in Times :
          (event'.name = "add" /\ Add(typed, now) /\ trim(typed) # <<>>) =>
              /\ Len(tasks') = Len(tasks) + 1
              /\ tasks'[Len(tasks')] = Task(trim(typed), FALSE, now)
              /\ tasks'[Len(tasks')].text[1] # " "
              /\ tasks'[Len(tasks')].text[Len(tasks'[Len(tasks')].text)] # " "
              /\ SubSeq(tasks', 1, Len(tasks)) = tasks]_vars

\* an add has been appended behind two tasks and written
C11_Witness ==
    /\ event.name = "add"
    /\ event.wrote
    /\ Len(tasks) = 3
    /\ IsTask(tasks[3])
    /\ ~tasks[3].completed

IsBlank(typed) == \A i \in DOMAIN typed : typed[i] = " "

\* C12: an add with an empty or whitespace-only field changes neither the
\* list, nor the stored text, nor the field, and attempts no storage write
C12_BlankAddIsNoOp ==
    [][\A typed \in InputTexts, now \in Times :
          (event'.name = "add" /\ Add(typed, now) /\ IsBlank(typed)) =>
              /\ tasks' = tasks
              /\ tasksType' = tasksType
              /\ storage' = storage
              /\ view' = view
              /\ todoInput' = typed
              /\ ~event'.wrote
              /\ event'.error = "none"
              /\ quotaBudget' = quotaBudget]_vars

\* a whitespace-only add has returned over a stored, non-empty list
C12_Witness ==
    /\ event.name = "add"
    /\ ~event.wrote
    /\ event.error = "none"
    /\ todoInput = <<" ">>
    /\ Len(tasks) > 0
    /\ storage = JSONstringify(tasks)

Edit(k, typed) == \E ok \in WriteOutcomes : EditCommit(k, typed, ok)

NoRowEditing(v) == \A j \in DOMAIN v : ~v[j].editing

\* the text of the task of row k becomes the trimmed text when that is not
\* empty, and no task is added, removed or moved
EditSetsText(k, typed) ==
    /\ Len(tasks') = Len(tasks)
    /\ \A i \in DOMAIN tasks :
          tasks'[i] = IF i = view[k].ref /\ ~IsBlank(typed)
                      THEN [tasks[i] EXCEPT !.text = trim(typed)]
                      ELSE tasks[i]

Toggle(k) == \E ok \in WriteOutcomes : CheckboxChange(k, ok)

\* where the element at position r is after a drop on row k
DropPos(k, r) ==
    LET from == draggedIndex + 1
        to == Min(k - 1, Len(splice(tasks, draggedIndex, 1, <<>>).array)) + 1
        closed == IF from <= Len(tasks) /\ r > from THEN r - 1 ELSE r
    IN  IF from <= Len(tasks) /\ r = from THEN to
        ELSE IF closed >= to THEN closed + 1 ELSE closed

\* where the element at position r is after a click on Remove of row k
RemovePos(k, r) == IF r > k THEN r - 1 ELSE r

C15_SetCompleted ==
    [][\A k \in Rows :
          (event'.name = "toggle" /\ Toggle(k) /\ view[k].ref # 0) =>
              LET ref == view[k].ref
                  v == ~view[k].checked
              IN  /\ tasks' = setCompleted(tasks, ref, v)
                  /\ Len(tasks') = Len(tasks)
                  /\ tasks'[ref] = [tasks[ref] EXCEPT !.completed = v]
                  /\ \A i \in DOMAIN tasks \ {ref} : tasks'[i] = tasks[i]
                  /\ setCompleted(tasks', ref, v) = tasks'
                  /\ ~setCompleted(setCompleted(tasks, ref, TRUE), ref, FALSE)[ref].completed
                  /\ setCompleted(setCompleted(tasks, ref, TRUE), ref, FALSE)
                        = setCompleted(tasks, ref, FALSE)]_vars

\* a checkbox has been changed in a list of two tasks or more, and the flags
\* of the first two tasks are the opposite of the stored ones
C15_Witness ==
    /\ event.name = "toggle"
    /\ event.wrote
    /\ Len(tasks) >= 2
    /\ tasks[1].completed
    /\ ~tasks[2].completed

\* C16: persisting the list and loading it again yields an equal list: the
\* same length and order, and the same text, completed and createdAt
C16_RoundTrip ==
    pc # "start" => loadTasks(JSONstringify(tasks)) = [type |-> "array", items |-> tasks]

\* C17: dragover changes neither the list, nor the stored text, nor the
\* drag-source index; dragend sets the drag-source index to absent; dragstart
\* and dragend change neither the list nor the stored text
C17_DragOverAndEnd ==
    [][/\ (\E k \in Rows : handleDragOver(k)) =>
             (tasks' = tasks /\ storage' = storage /\ draggedIndex' = draggedIndex)
       /\ handleDragEnd =>
             (draggedIndex' = Null /\ tasks' = tasks /\ storage' = storage)
       /\ event'.name = "dragend" => draggedIndex' = Null
       /\ (\E k \in Rows : handleDragStart(k)) =>
             (tasks' = tasks /\ storage' = storage)]_vars

\* a drag has ended over a stored list of two tasks or more
C17_Witness ==
    /\ event.name = "dragend"
    /\ draggedIndex = Null
    /\ Len(tasks) >= 2
    /\ storage = JSONstringify(tasks)

RECURSIVE Count(_, _)
Count(ts, e) ==
    IF ts = <<>> THEN 0
    ELSE (IF Head(ts) = e THEN 1 ELSE 0) + Count(Tail(ts), e)

SameMultiset(a, b) ==
    /\ Len(a) = Len(b)
    /\ \A i \in DOMAIN a : Count(a, a[i]) = Count(b, a[i])

\* C19: toggle, edit commit, dragstart, dragover, drop and dragend leave the
\* length of the list unchanged, a drop leaves the multiset of tasks
\* unchanged, an add with a non-empty text makes the list one longer, a remove
\* makes it at most one shorter and delete-all makes it empty
C19_LengthChangesOnlyByAddRemoveClear ==
    [][/\ event'.name \in {"toggle", "edit", "editStart", "dragstart", "dragover", "drop",
                            "dragend", "darkMode"}
             => Len(tasks') = Len(tasks)
       /\ event'.name = "drop" => SameMultiset(tasks, tasks')
       /\ event'.name = "add" => Len(tasks') \in {Len(tasks), Len(tasks) + 1}
       /\ event'.name = "remove" => Len(tasks') \in {Len(tasks), Len(tasks) - 1}
       /\ event'.name = "deleteAll" => Len(tasks') = 0]_vars

\* C20: entering editing mode and typing in the span change neither the list
\* nor the stored text; every re-render (after a written add, toggle, remove,
\* drop or delete-all, and after any edit commit) leaves every row in viewing
\* mode showing the text of its task in the list
C20_UncommittedTextIsDiscarded ==
    [][/\ event'.name \in {"editStart", "type"} =>
             /\ tasks' = tasks
             /\ tasksType' = tasksType
             /\ storage' = storage
             /\ ~event'.wrote
       /\ (event'.wrote \/ event'.name = "edit") =>
             \A j \in DOMAIN view' :
                 /\ ~view'[j].editing
                 /\ view'[j].ref = j
                 /\ view'[j].text = tasks'[j].text
                 /\ view'[j].checked = tasks'[j].completed]_vars

\* two rows are in editing mode and both show a typed text that is not the
\* text of their task
C20_Witness ==
    /\ event.name = "type"
    /\ Len(view) = 2
    /\ \A k \in DOMAIN view :
          view[k].editing /\ view[k].ref = k /\ view[k].text # tasks[k].text

====
